---- MODULE Spec2Model ----
(***************************************************************************)
(* Model of the Spread EPUB parser (rust/src): tokenizer.rs, types.rs and  *)
(* epub.rs.  Strings are sequences of characters; a character is a TLA+    *)
(* string naming one Unicode scalar value.  Byte offsets into a string are *)
(* offsets into its UTF-8 encoding, as in Rust.                            *)
(***************************************************************************)
EXTENDS Integers, Sequences, FiniteSets, TLC

(***************************************************************************)
(* Characters and strings (Rust char / str)                                *)
(***************************************************************************)
LowerAscii ==
    <<"a","b","c","d","e","f","g","h","i","j","k","l","m","n","o","p","q","r","s","t","u","v","w","x","y","z">>

UpperAscii ==
    <<"A","B","C","D","E","F","G","H","I","J","K","L","M","N","O","P","Q","R","S","T","U","V","W","X","Y","Z">>

Range(s) == {s[i] : i \in 1..Len(s)}

IndexOf(s, c) == CHOOSE i \in 1..Len(s) : s[i] = c

Min(a, b) == IF a <= b THEN a ELSE b

\* Non-ASCII letters of the model alphabet:
\*   e_acute U+00E9, E_acute U+00C9, zhe U+0436 (2 bytes each),
\*   I_dot U+0130 (2 bytes, lowercases to "i" followed by U+0307),
\*   K_sign U+212A (3 bytes, lowercases to ASCII "k"), han U+4E2D (3 bytes).
\* dot_above is U+0307, a combining mark (2 bytes, not alphabetic).
WideLetters == {"e_acute", "E_acute", "zhe", "I_dot", "K_sign", "han"}

Digits == {"0", "1", "2", "3", "4", "5", "6", "7", "8", "9"}

\* char::is_alphabetic
is_alphabetic(c) == c \in Range(LowerAscii) \cup Range(UpperAscii) \cup WideLetters

\* char::is_alphanumeric
is_alphanumeric(c) == is_alphabetic(c) \/ c \in Digits

\* char::is_whitespace
is_whitespace(c) == c \in {" ", "\n", "\t"}

\* char::len_utf8
len_utf8(c) ==
    IF c \in {"e_acute", "E_acute", "zhe", "I_dot", "dot_above"} THEN 2
    ELSE IF c \in {"K_sign", "han"} THEN 3
    ELSE 1

\* char::to_lowercase: the lowercase form of one character, as a string
char_to_lowercase(c) ==
    IF c \in Range(UpperAscii) THEN <<LowerAscii[IndexOf(UpperAscii, c)]>>
    ELSE IF c = "E_acute" THEN <<"e_acute">>
    ELSE IF c = "I_dot" THEN <<"i", "dot_above">>
    ELSE IF c = "K_sign" THEN <<"k">>
    ELSE <<c>>

RECURSIVE to_lowercase(_)
\* str::to_lowercase
to_lowercase(s) ==
    IF s = <<>> THEN <<>> ELSE char_to_lowercase(Head(s)) \o to_lowercase(Tail(s))

RECURSIVE str_len(_)
\* str::len: length in bytes of the UTF-8 encoding
str_len(s) ==
    IF s = <<>> THEN 0 ELSE len_utf8(Head(s)) + str_len(Tail(s))

\* .chars().filter(pred) for the three predicates the code uses
filter_alphabetic(s) == SelectSeq(s, LAMBDA c : is_alphabetic(c))

is_clean_char(c) == is_alphanumeric(c) \/ c = "'" \/ c = "-"

count_clean(s) == Len(SelectSeq(s, is_clean_char))

\* str::is_char_boundary
is_char_boundary(s, b) ==
    b = 0 \/ \E k \in 1..Len(s) : str_len(SubSeq(s, 1, k)) = b

\* number of characters that end at or before byte offset b (b a boundary)
char_index(s, b) ==
    IF b = 0 THEN 0 ELSE CHOOSE k \in 1..Len(s) : str_len(SubSeq(s, 1, k)) = b

\* &s[a..b] succeeds iff both offsets are in range and on character boundaries
slice_ok(s, a, b) ==
    /\ a <= b
    /\ b <= str_len(s)
    /\ is_char_boundary(s, a)
    /\ is_char_boundary(s, b)

\* &s[a..b]
slice(s, a, b) == SubSeq(s, char_index(s, a) + 1, char_index(s, b))

starts_with(s, p) == Len(p) <= Len(s) /\ SubSeq(s, 1, Len(p)) = p

ends_with(s, p) == Len(p) <= Len(s) /\ SubSeq(s, Len(s) - Len(p) + 1, Len(s)) = p

(***************************************************************************)
(* types.rs                                                                *)
(***************************************************************************)
Short == 0
Medium == 1
Long == 2
VeryLong == 3

PunctNone == 0
Comma == 1
Period == 2
Paragraph == 3

\* LengthBucket::from_length with the upper ends of the ranges excluded
from_length_exclusive(len) ==
    IF len < 4 THEN Short
    ELSE IF len < 8 THEN Medium
    ELSE IF len < 12 THEN Long
    ELSE VeryLong

\* LengthBucket::from_length
from_length(len) ==
    IF len <= 4 THEN Short
    ELSE IF len <= 8 THEN Medium
    ELSE IF len <= 12 THEN Long
    ELSE VeryLong

\* Punctuation::from_char
from_char(c) ==
    IF c \in {".", "!", "?"} THEN Period
    ELSE IF c \in {",", ";", ":"} THEN Comma
    ELSE PunctNone

(***************************************************************************)
(* tokenizer.rs                                                            *)
(***************************************************************************)
MAX_CHUNK_CHARS == 15

MIN_CHUNK_CHARS == 3

MIN_SPLIT_LENGTH == 13

PREFIXES ==
    << <<"c","o","u","n","t","e","r">>,
       <<"e","x","t","r","a">>,
       <<"h","y","p","e","r">>,
       <<"i","n","t","e","r">>,
       <<"m","i","c","r","o">>,
       <<"m","u","l","t","i">>,
       <<"s","u","p","e","r">>,
       <<"t","r","a","n","s">>,
       <<"u","l","t","r","a">>,
       <<"u","n","d","e","r">>,
       <<"a","n","t","i">>,
       <<"a","u","t","o">>,
       <<"m","o","n","o">>,
       <<"o","v","e","r">>,
       <<"p","o","l","y">>,
       <<"p","o","s","t">>,
       <<"s","e","m","i">>,
       <<"t","e","l","e">>,
       <<"d","i","s">>,
       <<"m","i","d">>,
       <<"m","i","s">>,
       <<"n","o","n">>,
       <<"o","u","t">>,
       <<"p","r","e">>,
       <<"p","r","o">>,
       <<"s","u","b">>,
       <<"t","r","i">>,
       <<"d","e">>,
       <<"i","l">>,
       <<"i","m">>,
       <<"i","n">>,
       <<"i","r">>,
       <<"r","e">>,
       <<"u","n">> >>

SUFFIXES ==
    << <<"i","z","a","t","i","o","n">>,
       <<"i","s","a","t","i","o","n">>,
       <<"a","t","i","o","n","a","l">>,
       <<"a","t","i","v","e">>,
       <<"i","t","i","v","e">>,
       <<"i","c","a","l">>,
       <<"i","o","u","s">>,
       <<"e","o","u","s">>,
       <<"t","i","o","n">>,
       <<"s","i","o","n">>,
       <<"n","e","s","s">>,
       <<"m","e","n","t">>,
       <<"a","b","l","e">>,
       <<"i","b","l","e">>,
       <<"l","e","s","s">>,
       <<"e","n","c","e">>,
       <<"a","n","c","e">>,
       <<"f","u","l">>,
       <<"o","u","s">>,
       <<"i","v","e">>,
       <<"i","a","l">>,
       <<"i","n","g">>,
       <<"i","t","y">>,
       <<"e","t","y">>,
       <<"i","z","e">>,
       <<"i","s","e">>,
       <<"i","f","y">>,
       <<"e","n","t">>,
       <<"a","n","t">>,
       <<"a","l">>,
       <<"e","d">>,
       <<"e","r">>,
       <<"l","y">>,
       <<"t","y">> >>

\* Result of a call that may abort (Rust panic) instead of returning
Panicked == [panic |-> TRUE, chunks |-> <<>>]

Returned(cs) == [panic |-> FALSE, chunks |-> cs]

RECURSIVE find_prefix(_, _, _)
\* the loop over PREFIXES: length of the first prefix that can be stripped, or 0
find_prefix(remaining, remaining_lower, i) ==
    IF i > Len(PREFIXES) THEN 0
    ELSE IF /\ starts_with(remaining_lower, PREFIXES[i])
            /\ str_len(remaining) > str_len(PREFIXES[i]) + MIN_CHUNK_CHARS
         THEN str_len(PREFIXES[i])
         ELSE find_prefix(remaining, remaining_lower, i + 1)

RECURSIVE find_suffix(_, _, _)
\* the loop over SUFFIXES: length of the first suffix that can be stripped, or 0
find_suffix(remaining, remaining_lower, i) ==
    IF i > Len(SUFFIXES) THEN 0
    ELSE IF /\ ends_with(remaining_lower, SUFFIXES[i])
            /\ str_len(remaining) > str_len(SUFFIXES[i]) + MIN_CHUNK_CHARS
         THEN str_len(SUFFIXES[i])
         ELSE find_suffix(remaining, remaining_lower, i + 1)

\* the hyphens put around one piece of the middle, the leading hyphen of an
\* inner piece forgotten
format_chunk_trailing_only(chunk, is_first, at_end) ==
    IF is_first /\ at_end THEN chunk
    ELSE IF is_first THEN chunk \o <<"-">>
    ELSE IF at_end THEN <<"-">> \o chunk
    ELSE chunk \o <<"-">>

\* the hyphens put around one piece of the middle
format_chunk(chunk, is_first, at_end) ==
    IF is_first /\ at_end THEN chunk
    ELSE IF is_first THEN chunk \o <<"-">>
    ELSE IF at_end THEN <<"-">> \o chunk
    ELSE <<"-">> \o chunk \o <<"-">>

\* chunks.push(formatted), followed by the pieces of the later iterations
push_chunk(formatted, rest) ==
    IF rest.panic THEN Panicked ELSE Returned(<<formatted>> \o rest.chunks)

RECURSIVE middle_chunks(_, _, _, _)
RECURSIVE middle_chunk(_, _, _, _, _)
\* the while loop cutting the middle into pieces of MAX_CHUNK_CHARS bytes
middle_chunks(middle, pos, is_first, suffix_len) ==
    IF pos >= str_len(middle) THEN Returned(<<>>)
    ELSE middle_chunk(middle, pos, Min(pos + MAX_CHUNK_CHARS, str_len(middle)),
                      is_first, suffix_len)

\* one iteration of the while loop: the piece &middle[pos..end]
middle_chunk(middle, pos, end, is_first, suffix_len) ==
    IF ~slice_ok(middle, pos, end) THEN Panicked
    ELSE push_chunk(
            format_chunk(slice(middle, pos, end), is_first,
                         pos + MAX_CHUNK_CHARS >= str_len(middle) /\ suffix_len = 0),
            middle_chunks(middle, end, FALSE, suffix_len))

\* the end of split_long_word: the original token when at most one chunk
\* resulted, the chunks otherwise
split_result(word, chunks, mid) ==
    IF mid.panic THEN Panicked
    ELSE IF Len(chunks) <= 1 THEN Returned(<<word>>)
    ELSE Returned(chunks)

\* the middle and the suffix chunk, the suffix taken from the lowercase form
split_middle_lower_suffix(word, prefix_chunk, remaining, mid, suffix_len) ==
    split_result(word,
        prefix_chunk \o mid.chunks
            \o (IF suffix_len > 0
                THEN <<<<"-">> \o to_lowercase(
                        slice(remaining, str_len(remaining) - suffix_len,
                              str_len(remaining)))>>
                ELSE <<>>),
        mid)

\* the middle and the suffix chunk, once the suffix length is known
split_middle(word, prefix_chunk, remaining, mid, suffix_len) ==
    split_result(word,
        prefix_chunk \o mid.chunks
            \o (IF suffix_len > 0
                THEN <<<<"-">> \o slice(remaining, str_len(remaining) - suffix_len,
                                         str_len(remaining))>>
                ELSE <<>>),
        mid)

\* the suffix search and the cut before the suffix
split_suffix(word, prefix_chunk, remaining, is_first, suffix_len) ==
    IF /\ suffix_len > 0
       /\ ~slice_ok(remaining, str_len(remaining) - suffix_len, str_len(remaining))
    THEN Panicked
    ELSE split_middle(word, prefix_chunk, remaining,
            middle_chunks(
                IF suffix_len > 0
                THEN slice(remaining, 0, str_len(remaining) - suffix_len)
                ELSE remaining,
                0, is_first, suffix_len),
            suffix_len)

\* the prefix chunk and what remains after it, once the prefix length is known
split_prefix(word, clean, clean_lower, prefix_len) ==
    IF prefix_len = 0
    THEN split_suffix(word, <<>>, clean, TRUE, find_suffix(clean, clean_lower, 1))
    ELSE IF \/ ~slice_ok(clean, 0, prefix_len)
            \/ ~slice_ok(clean, prefix_len, str_len(clean))
            \/ ~slice_ok(clean_lower, prefix_len, str_len(clean_lower))
    THEN Panicked
    ELSE split_suffix(word,
            <<slice(clean, 0, prefix_len) \o <<"-">>>>,
            slice(clean, prefix_len, str_len(clean)),
            FALSE,
            find_suffix(slice(clean, prefix_len, str_len(clean)),
                        slice(clean_lower, prefix_len, str_len(clean_lower)), 1))

\* the length test on the clean form and the prefix search
split_clean(word, clean, clean_lower) ==
    IF str_len(clean) < MIN_SPLIT_LENGTH THEN Returned(<<word>>)
    ELSE split_prefix(word, clean, clean_lower, find_prefix(clean, clean_lower, 1))

\* split_long_word: the chunk list, or a panic when a byte offset used for a
\* slice is not a character boundary
split_long_word(word) ==
    split_clean(word, filter_alphabetic(word), to_lowercase(filter_alphabetic(word)))

RECURSIVE split_whitespace(_, _, _)
\* str::split_whitespace: the maximal runs of non-whitespace characters;
\* cur is the run being read, acc the runs already finished
split_whitespace(text, cur, acc) ==
    IF text = <<>> THEN (IF cur = <<>> THEN acc ELSE Append(acc, cur))
    ELSE IF is_whitespace(Head(text))
         THEN split_whitespace(Tail(text), <<>>,
                               IF cur = <<>> THEN acc ELSE Append(acc, cur))
         ELSE split_whitespace(Tail(text), Append(cur, Head(text)), acc)

\* A call of tokenize or tokenize_paragraphs that panicked / returned
WordsPanicked == [panic |-> TRUE, words |-> <<>>]

WordsReturned(ws) == [panic |-> FALSE, words |-> ws]

\* the loop over the chunks of a token, with every chunk given the
\* punctuation of the token
chunk_words_all_punct(following_punct, split) ==
    IF split.panic THEN WordsPanicked
    ELSE WordsReturned(
            [i \in 1..Len(split.chunks) |->
                [text |-> split.chunks[i],
                 length_bucket |-> from_length(count_clean(split.chunks[i])),
                 following_punct |-> following_punct]])

\* the loop over the chunks of a token: one Word per chunk
chunk_words(following_punct, split) ==
    IF split.panic THEN WordsPanicked
    ELSE WordsReturned(
            [i \in 1..Len(split.chunks) |->
                [text |-> split.chunks[i],
                 length_bucket |-> from_length(count_clean(split.chunks[i])),
                 following_punct |->
                    IF i - 1 = Len(split.chunks) - 1 THEN following_punct
                    ELSE PunctNone]])

\* body of the loop over raw tokens in tokenize: the Words of one raw token
tokenize_raw(raw) ==
    IF raw = <<>> \/ count_clean(raw) = 0 THEN WordsReturned(<<>>)
    ELSE chunk_words(from_char(raw[Len(raw)]), split_long_word(raw))

RECURSIVE tokenize_loop(_, _)
RECURSIVE tokenize_next(_, _, _)
\* the loop over raw tokens in tokenize
tokenize_loop(raws, ws) ==
    IF raws = <<>> THEN WordsReturned(ws)
    ELSE tokenize_next(Tail(raws), ws, tokenize_raw(Head(raws)))

\* words.push for the Words r of one token, then the remaining tokens
tokenize_next(raws, ws, r) ==
    IF r.panic THEN WordsPanicked ELSE tokenize_loop(raws, ws \o r.words)

\* tokenize
tokenize(text) == tokenize_loop(split_whitespace(text, <<>>, <<>>), <<>>)

\* the last word of a paragraph, marked also when the paragraph is the final one
mark_last_always(last_word, not_final) ==
    IF last_word.following_punct = PunctNone
    THEN [last_word EXCEPT !.following_punct = Paragraph]
    ELSE last_word

\* the last word of a paragraph, marked with Paragraph whatever tokenize gave it
mark_last_overwrite(last_word, not_final) ==
    IF not_final
    THEN [last_word EXCEPT !.following_punct = Paragraph]
    ELSE last_word

\* the last word of a paragraph, marked with Paragraph if not already marked
mark_last(last_word, not_final) ==
    IF not_final /\ last_word.following_punct = PunctNone
    THEN [last_word EXCEPT !.following_punct = Paragraph]
    ELSE last_word

RECURSIVE tokenize_paragraphs_loop(_, _, _)
RECURSIVE paragraph_words(_, _, _, _)
\* the loop over paragraphs in tokenize_paragraphs; p_idx is 0-based
tokenize_paragraphs_loop(paras, p_idx, ws) ==
    IF p_idx >= Len(paras) THEN WordsReturned(ws)
    ELSE paragraph_words(paras, p_idx, ws, tokenize(paras[p_idx + 1]))

\* body of the loop over paragraphs, t being the result of tokenize(para)
paragraph_words(paras, p_idx, ws, t) ==
    IF t.panic THEN WordsPanicked
    ELSE IF t.words = <<>> THEN tokenize_paragraphs_loop(paras, p_idx + 1, ws)
    ELSE tokenize_paragraphs_loop(paras, p_idx + 1,
            ws \o SubSeq(t.words, 1, Len(t.words) - 1)
               \o <<mark_last(t.words[Len(t.words)], p_idx < Len(paras) - 1)>>)

\* tokenize_paragraphs
tokenize_paragraphs(paras) == tokenize_paragraphs_loop(paras, 0, <<>>)

(***************************************************************************)
(* types.rs: statistics                                                    *)
(***************************************************************************)
\* ChapterStats::default
default_stats ==
    [word_count |-> 0,
     length_counts |-> [i \in 0..3 |-> 0],
     punct_counts |-> [i \in 0..3 |-> 0]]

RECURSIVE from_words_loop(_, _)
\* the loop of ChapterStats::from_words
from_words_loop(words, stats) ==
    IF words = <<>> THEN stats
    ELSE
        LET word == Head(words)
        IN  from_words_loop(Tail(words),
                [stats EXCEPT !.length_counts[word.length_bucket] = @ + 1,
                              !.punct_counts[word.following_punct] = @ + 1])

\* ChapterStats::from_words
from_words(words) ==
    from_words_loop(words, [default_stats EXCEPT !.word_count = Len(words)])

\* ChapterStats::merge assigning the length histogram instead of adding to it
merge_assign_length(self, other) ==
    [word_count |-> self.word_count + other.word_count,
     length_counts |-> other.length_counts,
     punct_counts |-> [i \in 0..3 |-> self.punct_counts[i] + other.punct_counts[i]]]

\* ChapterStats::merge with the one histogram forgotten
merge_no_punct(self, other) ==
    [word_count |-> self.word_count + other.word_count,
     length_counts |-> [i \in 0..3 |-> self.length_counts[i] + other.length_counts[i]],
     punct_counts |-> self.punct_counts]

\* ChapterStats::merge
merge(self, other) ==
    [word_count |-> self.word_count + other.word_count,
     length_counts |-> [i \in 0..3 |-> self.length_counts[i] + other.length_counts[i]],
     punct_counts |-> [i \in 0..3 |-> self.punct_counts[i] + other.punct_counts[i]]]

RECURSIVE from_chapters_loop(_, _)
\* the loop of BookStats::from_chapters
from_chapters_loop(chapters, aggregated) ==
    IF chapters = <<>> THEN aggregated
    ELSE from_chapters_loop(Tail(chapters), merge(aggregated, Head(chapters).stats))

\* BookStats { total_words: aggregated.word_count, aggregated }
book_stats(aggregated) ==
    [total_words |-> aggregated.word_count, aggregated |-> aggregated]

\* BookStats::from_chapters
from_chapters(chs) == book_stats(from_chapters_loop(chs, default_stats))

\* the Chapter built from the result t of tokenize_paragraphs
chapter_of(index_, title, t) ==
    [panic |-> t.panic,
     chapter |-> [index |-> index_,
                  title |-> title,
                  words |-> t.words,
                  stats |-> from_words(t.words)]]

\* create_chapter: a Chapter, or a panic raised while tokenizing
create_chapter(index_, title, paras) ==
    chapter_of(index_, title, tokenize_paragraphs(paras))

(***************************************************************************)
(* epub.rs: documents.  The XML reader yields a document as a sequence of  *)
(* events [kind, name, attrs, text]; after the last event it yields Eof.   *)
(* kind is "Start", "End", "Empty", "Text", "Other" (comments, processing  *)
(* instructions, ...) or "Err" (a well-formedness error).                  *)
(***************************************************************************)
None == [some |-> FALSE, val |-> <<>>]

Some(v) == [some |-> TRUE, val |-> v]

StartEv(name, attrs) == [kind |-> "Start", name |-> name, attrs |-> attrs, text |-> <<>>]

EndEv(name) == [kind |-> "End", name |-> name, attrs |-> <<>>, text |-> <<>>]

EmptyEv(name, attrs) == [kind |-> "Empty", name |-> name, attrs |-> attrs, text |-> <<>>]

TextEv(text) == [kind |-> "Text", name |-> <<>>, attrs |-> <<>>, text |-> text]

ErrEv == [kind |-> "Err", name |-> <<>>, attrs |-> <<>>, text |-> <<>>]

RECURSIVE trim_start(_)
trim_start(s) ==
    IF s /= <<>> /\ is_whitespace(Head(s)) THEN trim_start(Tail(s)) ELSE s

RECURSIVE trim_end(_)
trim_end(s) ==
    IF s /= <<>> /\ is_whitespace(s[Len(s)]) THEN trim_end(SubSeq(s, 1, Len(s) - 1)) ELSE s

\* str::trim
trim(s) == trim_end(trim_start(s))

ParaBreak == <<"\n", "\n">>

RECURSIVE split_paragraphs(_, _, _)
\* text.split("\n\n"): the pieces between leftmost non-overlapping separators
split_paragraphs(text, cur, acc) ==
    IF text = <<>> THEN Append(acc, cur)
    ELSE IF starts_with(text, ParaBreak)
         THEN split_paragraphs(SubSeq(text, 3, Len(text)), <<>>, Append(acc, cur))
         ELSE split_paragraphs(Tail(text), Append(cur, Head(text)), acc)

\* text.split("\n\n").map(|s| s.trim()).filter(|s| !s.is_empty()).collect()
trimmed_nonempty(pieces) ==
    SelectSeq([i \in 1..Len(pieces) |-> trim(pieces[i])], LAMBDA p : p /= <<>>)

paragraphs_of(text) == trimmed_nonempty(split_paragraphs(text, <<>>, <<>>))

TagBody == <<"b","o","d","y">>
TagScript == <<"s","c","r","i","p","t">>
TagStyle == <<"s","t","y","l","e">>
TagHead == <<"h","e","a","d">>
TagTitle == <<"t","i","t","l","e">>
TagP == <<"p">>
TagDiv == <<"d","i","v">>
TagBr == <<"b","r">>
TagH1 == <<"h","1">>
TagH2 == <<"h","2">>
TagH3 == <<"h","3">>
TagH4 == <<"h","4">>
TagH5 == <<"h","5">>
TagH6 == <<"h","6">>

SkipTags == {TagScript, TagStyle, TagHead}

BlockTags == {TagP, TagDiv, TagBr, TagH1, TagH2, TagH3, TagH4, TagH5, TagH6}

\* state of extract_text_from_xhtml before the first event
text_init == [result |-> <<>>, in_body |-> FALSE, skip_depth |-> 0]

\* one iteration of the loop of extract_text_from_xhtml
text_step(st, e) ==
    LET tag == to_lowercase(e.name)
    IN  IF e.kind = "Start" THEN
            IF tag = TagBody THEN [st EXCEPT !.in_body = TRUE]
            ELSE IF st.in_body THEN
                [st EXCEPT
                    !.skip_depth = IF tag \in SkipTags THEN @ + 1 ELSE @,
                    !.result = IF /\ tag \in BlockTags
                                  /\ ~ends_with(@, ParaBreak)
                                  /\ @ /= <<>>
                               THEN @ \o ParaBreak ELSE @]
            ELSE st
        ELSE IF e.kind = "End" THEN
            IF tag = TagBody THEN [st EXCEPT !.in_body = FALSE]
            ELSE IF tag \in SkipTags /\ st.skip_depth > 0
                 THEN [st EXCEPT !.skip_depth = @ - 1]
                 ELSE st
        ELSE IF e.kind = "Text" THEN
            IF st.in_body /\ st.skip_depth = 0 THEN
                LET text == trim(e.text)
                IN  IF text /= <<>> THEN
                        [st EXCEPT !.result =
                            (IF /\ @ /= <<>>
                                /\ ~ends_with(@, <<"\n">>)
                                /\ ~ends_with(@, <<" ">>)
                             THEN Append(@, " ") ELSE @) \o text]
                    ELSE st
            ELSE st
        ELSE IF e.kind = "Empty" THEN
            IF st.in_body /\ tag = TagBr
            THEN [st EXCEPT !.result = @ \o ParaBreak]
            ELSE st
        ELSE st

RECURSIVE text_loop(_, _)
text_loop(events, st) ==
    IF events = <<>> THEN st ELSE text_loop(Tail(events), text_step(st, Head(events)))

\* extract_text_from_xhtml
extract_text_from_xhtml(content) == text_loop(content, text_init).result

\* state of extract_title_from_xhtml before the first event
title_init == [in_title_tag |-> FALSE, in_h_tag |-> FALSE, returned |-> None]

\* one iteration of the loop of extract_title_from_xhtml; returned is set
\* when the iteration executes `return Some(text)`
title_step(st, e) ==
    LET tag == to_lowercase(e.name)
    IN  IF e.kind = "Start" THEN
            IF tag = TagTitle THEN [st EXCEPT !.in_title_tag = TRUE]
            ELSE IF tag \in {TagH1, TagH2} THEN [st EXCEPT !.in_h_tag = TRUE]
            ELSE st
        ELSE IF e.kind = "Text" THEN
            IF st.in_h_tag THEN
                LET text == trim(e.text)
                IN  IF text /= <<>> THEN [st EXCEPT !.returned = Some(text)] ELSE st
            ELSE IF st.in_title_tag THEN
                LET text == trim(e.text)
                IN  IF text /= <<>> THEN [st EXCEPT !.in_title_tag = FALSE] ELSE st
            ELSE st
        ELSE IF e.kind = "End" THEN
            IF tag = TagTitle THEN [st EXCEPT !.in_title_tag = FALSE]
            ELSE IF tag \in {TagH1, TagH2} THEN [st EXCEPT !.in_h_tag = FALSE]
            ELSE st
        ELSE st

RECURSIVE title_loop(_, _)
title_loop(events, st) ==
    IF events = <<>> \/ st.returned.some THEN st
    ELSE title_loop(Tail(events), title_step(st, Head(events)))

\* extract_title_from_xhtml: Some(text) or None
extract_title_from_xhtml(content) == title_loop(content, title_init).returned

(***************************************************************************)
(* epub.rs: archive access and the package document.  An archive is a      *)
(* sequence of entries [name, content] with pairwise distinct names; the   *)
(* content of an entry is the event sequence the XML reader yields for it. *)
(***************************************************************************)
Ok(v) == [ok |-> TRUE, val |-> v, err |-> "none"]

Err(kind) == [ok |-> FALSE, val |-> <<>>, err |-> kind]

\* ZipArchive::by_name: index of the entry with exactly this name, 0 if none
by_name(archive, name) ==
    IF \E i \in 1..Len(archive) : archive[i].name = name
    THEN CHOOSE i \in 1..Len(archive) : archive[i].name = name
    ELSE 0

RECURSIVE find_name(_, _, _)
\* the case-insensitive scan of read_file: name of the first entry at index
\* >= i whose lowercased name equals path_lower, or None
find_name(archive, path_lower, i) ==
    IF i > Len(archive) THEN None
    ELSE IF to_lowercase(archive[i].name) = path_lower THEN Some(archive[i].name)
    ELSE find_name(archive, path_lower, i + 1)

\* read_file that never tries the case-insensitive scan
read_file_exact_only(archive, path) ==
    IF by_name(archive, path) /= 0 THEN Ok(archive[by_name(archive, path)].content)
    ELSE Err("InvalidStructure")

\* read_file
read_file(archive, path) ==
    IF by_name(archive, path) /= 0 THEN Ok(archive[by_name(archive, path)].content)
    ELSE
        LET found_name == find_name(archive, to_lowercase(path), 1)
        IN  IF found_name.some
            THEN Ok(archive[by_name(archive, found_name.val)].content)
            ELSE Err("InvalidStructure")

ContainerPath == <<"M","E","T","A","-","I","N","F","/","c","o","n","t","a","i","n","e","r",".","x","m","l">>

TagRootfile == <<"r","o","o","t","f","i","l","e">>

RECURSIVE attr_first(_, _)
\* the first attribute with this key, as Some(value), or None
attr_first(attrs, key) ==
    IF attrs = <<>> THEN None
    ELSE IF Head(attrs).key = key THEN Some(Head(attrs).value)
    ELSE attr_first(Tail(attrs), key)

RECURSIVE attr_last(_, _, _)
\* the value left in a variable assigned from every attribute with this key
attr_last(attrs, key, default) ==
    IF attrs = <<>> THEN default
    ELSE attr_last(Tail(attrs), key,
                   IF Head(attrs).key = key THEN Head(attrs).value ELSE default)

RECURSIVE container_loop(_)
\* the loop of read_container over the events of container.xml
container_loop(events) ==
    IF events = <<>> THEN Err("MissingOpf")
    ELSE
        LET e == Head(events)
        IN  IF /\ e.kind \in {"Empty", "Start"}
               /\ e.name = TagRootfile
               /\ attr_first(e.attrs, "full-path").some
            THEN Ok(attr_first(e.attrs, "full-path").val)
            ELSE IF e.kind = "Err" THEN Err("Xml")
            ELSE container_loop(Tail(events))

\* the scan of container.xml read from the archive
container_content(file) ==
    IF ~file.ok THEN Err(file.err) ELSE container_loop(file.val)

\* read_container
read_container(arch) == container_content(read_file(arch, ContainerPath))

RECURSIVE local_name_of(_, _)
\* name.split(':').last(): the part of a qualified name after its last colon
local_name_of(name, cur) ==
    IF name = <<>> THEN cur
    ELSE IF Head(name) = ":" THEN local_name_of(Tail(name), <<>>)
    ELSE local_name_of(Tail(name), Append(cur, Head(name)))

\* str::contains
contains(s, p) == \E i \in 1..(Len(s) - Len(p) + 1) : SubSeq(s, i, i + Len(p) - 1) = p

NameMetadata == <<"m","e","t","a","d","a","t","a">>
NameTitle == <<"t","i","t","l","e">>
NameCreator == <<"c","r","e","a","t","o","r">>
NameItem == <<"i","t","e","m">>
NameItemref == <<"i","t","e","m","r","e","f">>
StrXhtml == <<"x","h","t","m","l">>
StrHtml == <<"h","t","m","l">>
UnknownTitle == <<"U","n","k","n","o","w","n"," ","T","i","t","l","e">>

EmptyMap == [x \in {} |-> <<>>]

\* HashMap::insert
map_insert(m, k, v) == [x \in DOMAIN m \cup {k} |-> IF x = k THEN v ELSE m[x]]

RECURSIVE idrefs_of(_)
\* the values of all idref attributes, in order
idrefs_of(attrs) ==
    IF attrs = <<>> THEN <<>>
    ELSE (IF Head(attrs).key = "idref" THEN <<Head(attrs).value>> ELSE <<>>)
         \o idrefs_of(Tail(attrs))

\* handling of an item element (Start or Empty) in read_opf
opf_item(st, e) ==
    LET id == attr_last(e.attrs, "id", <<>>)
        href == attr_last(e.attrs, "href", <<>>)
        media_type == attr_last(e.attrs, "media-type", <<>>)
    IN  IF contains(media_type, StrXhtml) \/ contains(media_type, StrHtml)
        THEN [st EXCEPT !.manifest = map_insert(@, id, href)]
        ELSE st

\* state of read_opf before the first event
opf_init ==
    [metadata |-> [title |-> <<>>, author |-> None],
     spine |-> <<>>,
     manifest |-> EmptyMap,
     in_metadata |-> FALSE,
     current_tag |-> <<>>,
     failed |-> FALSE]

\* one iteration of the loop of read_opf
opf_step(st, e) ==
    LET local_name == local_name_of(e.name, <<>>)
    IN  IF e.kind = "Start" THEN
            IF local_name = NameMetadata THEN [st EXCEPT !.in_metadata = TRUE]
            ELSE IF local_name \in {NameTitle, NameCreator} /\ st.in_metadata
                 THEN [st EXCEPT !.current_tag = local_name]
            ELSE IF local_name = NameItem THEN opf_item(st, e)
            ELSE IF local_name = NameItemref
                 THEN [st EXCEPT !.spine = @ \o idrefs_of(e.attrs)]
            ELSE st
        ELSE IF e.kind = "Empty" THEN
            IF local_name = NameItem THEN opf_item(st, e)
            ELSE IF local_name = NameItemref
                 THEN [st EXCEPT !.spine = @ \o idrefs_of(e.attrs)]
            ELSE st
        ELSE IF e.kind = "Text" THEN
            IF st.in_metadata THEN
                IF st.current_tag = NameTitle /\ st.metadata.title = <<>>
                THEN [st EXCEPT !.metadata.title = e.text]
                ELSE IF st.current_tag = NameCreator /\ ~st.metadata.author.some
                THEN [st EXCEPT !.metadata.author = Some(e.text)]
                ELSE st
            ELSE st
        ELSE IF e.kind = "End" THEN
            [st EXCEPT !.in_metadata = IF local_name = NameMetadata THEN FALSE ELSE @,
                       !.current_tag = <<>>]
        ELSE IF e.kind = "Err" THEN [st EXCEPT !.failed = TRUE]
        ELSE st

RECURSIVE opf_loop(_, _)
opf_loop(events, st) ==
    IF events = <<>> \/ st.failed THEN st
    ELSE opf_loop(Tail(events), opf_step(st, Head(events)))

\* the end of read_opf, st being the state after the loop
opf_result(st) ==
    IF st.failed THEN Err("Xml")
    ELSE Ok([metadata |->
                IF st.metadata.title = <<>>
                THEN [st.metadata EXCEPT !.title = UnknownTitle]
                ELSE st.metadata,
             spine |-> st.spine,
             manifest |-> st.manifest])

\* the scan of the package document read from the archive
opf_content(file) ==
    IF ~file.ok THEN Err(file.err) ELSE opf_result(opf_loop(file.val, opf_init))

\* read_opf: (metadata, spine, manifest) or an error
read_opf(arch, opf) == opf_content(read_file(arch, opf))

RECURSIVE rfind(_, _, _)
\* index of the last occurrence of character c in s at or before i, 0 if none
rfind(s, c, i) ==
    IF i = 0 THEN 0 ELSE IF s[i] = c THEN i ELSE rfind(s, c, i - 1)

\* opf_path.rsplit_once('/').map(|(dir, _)| dir).unwrap_or("")
opf_dir_of(opf_path) ==
    LET k == rfind(opf_path, "/", Len(opf_path))
    IN  IF k = 0 THEN <<>> ELSE SubSeq(opf_path, 1, k - 1)

RECURSIVE to_string(_)
\* usize::to_string: the decimal digits of n
to_string(n) ==
    LET d == <<"0", "1", "2", "3", "4", "5", "6", "7", "8", "9">>[(n % 10) + 1]
    IN  IF n < 10 THEN <<d>> ELSE Append(to_string(n \div 10), d)

\* format!("Chapter {}", n)
chapter_title(n) == <<"C","h","a","p","t","e","r"," ">> \o to_string(n)

(***************************************************************************)
(* tokenizer.rs, configurable entry points.  epub.rs calls                 *)
(* create_chapter_with_config(index, title, paragraphs, max_chunk_chars),  *)
(* whose definition is not among the sources; it is modelled from the      *)
(* design document (4.3): the same algorithm as split_long_word, counting  *)
(* characters, with the caller's limit for the middle pieces.              *)
(***************************************************************************)
RECURSIVE config_find_prefix(_, _, _)
config_find_prefix(clean, clean_lower, i) ==
    IF i > Len(PREFIXES) THEN 0
    ELSE IF /\ starts_with(clean_lower, PREFIXES[i])
            /\ Len(clean) - Len(PREFIXES[i]) > MIN_CHUNK_CHARS
         THEN Len(PREFIXES[i])
         ELSE config_find_prefix(clean, clean_lower, i + 1)

RECURSIVE config_find_suffix(_, _, _)
config_find_suffix(remaining, remaining_lower, i) ==
    IF i > Len(SUFFIXES) THEN 0
    ELSE IF /\ ends_with(remaining_lower, SUFFIXES[i])
            /\ Len(remaining) - Len(SUFFIXES[i]) > MIN_CHUNK_CHARS
         THEN Len(SUFFIXES[i])
         ELSE config_find_suffix(remaining, remaining_lower, i + 1)

RECURSIVE config_middle_chunks_fixed(_, _, _, _)
\* the middle cut with the fixed limit MAX_CHUNK_CHARS instead of the caller's
config_middle_chunks_fixed(middle, is_first, has_suffix, max_chunk) ==
    IF middle = <<>> THEN <<>>
    ELSE <<format_chunk(SubSeq(middle, 1, Min(MAX_CHUNK_CHARS, Len(middle))), is_first,
                        MAX_CHUNK_CHARS >= Len(middle) /\ ~has_suffix)>>
         \o config_middle_chunks_fixed(SubSeq(middle, MAX_CHUNK_CHARS + 1, Len(middle)),
                                       FALSE, has_suffix, max_chunk)

RECURSIVE config_middle_chunks(_, _, _, _)
config_middle_chunks(middle, is_first, has_suffix, max_chunk) ==
    IF middle = <<>> THEN <<>>
    ELSE <<format_chunk(SubSeq(middle, 1, Min(max_chunk, Len(middle))), is_first,
                        max_chunk >= Len(middle) /\ ~has_suffix)>>
         \o config_middle_chunks(SubSeq(middle, max_chunk + 1, Len(middle)), FALSE,
                                 has_suffix, max_chunk)

config_result(word, chunks) == IF Len(chunks) <= 1 THEN <<word>> ELSE chunks

config_split_suffix(word, prefix_chunk, remaining, is_first, suffix_len, max_chunk) ==
    config_result(word,
        prefix_chunk
        \o config_middle_chunks(SubSeq(remaining, 1, Len(remaining) - suffix_len),
                                is_first, suffix_len > 0, max_chunk)
        \o (IF suffix_len > 0
            THEN <<<<"-">> \o SubSeq(remaining, Len(remaining) - suffix_len + 1,
                                      Len(remaining))>>
            ELSE <<>>))

config_split_remaining(word, prefix_chunk, remaining, is_first, max_chunk) ==
    config_split_suffix(word, prefix_chunk, remaining, is_first,
        config_find_suffix(remaining, to_lowercase(remaining), 1), max_chunk)

config_split_prefix(word, clean, prefix_len, max_chunk) ==
    config_split_remaining(word,
        IF prefix_len > 0 THEN <<SubSeq(clean, 1, prefix_len) \o <<"-">>>> ELSE <<>>,
        SubSeq(clean, prefix_len + 1, Len(clean)),
        prefix_len = 0, max_chunk)

config_split_clean(word, clean, max_chunk) ==
    IF Len(clean) < MIN_SPLIT_LENGTH THEN <<word>>
    ELSE config_split_prefix(word, clean,
            config_find_prefix(clean, to_lowercase(clean), 1), max_chunk)

split_long_word_with_config(word, max_chunk) ==
    config_split_clean(word, filter_alphabetic(word), max_chunk)

\* the Words of the chunks of one raw token
config_chunk_words(following_punct, cs) ==
    [i \in 1..Len(cs) |->
        [text |-> cs[i],
         length_bucket |-> from_length(count_clean(cs[i])),
         following_punct |-> IF i = Len(cs) THEN following_punct ELSE PunctNone]]

RECURSIVE tokenize_with_config(_, _)
\* the Words of a sequence of raw tokens
tokenize_with_config(raws, max_chunk) ==
    IF raws = <<>> THEN <<>>
    ELSE (IF count_clean(Head(raws)) = 0 THEN <<>>
          ELSE config_chunk_words(from_char(Head(raws)[Len(Head(raws))]),
                                  split_long_word_with_config(Head(raws), max_chunk)))
         \o tokenize_with_config(Tail(raws), max_chunk)

\* the words of one paragraph, its last word marked
config_paragraph_words(ws, not_final) ==
    IF ws = <<>> THEN <<>>
    ELSE SubSeq(ws, 1, Len(ws) - 1) \o <<mark_last(ws[Len(ws)], not_final)>>

RECURSIVE tokenize_paragraphs_with_config(_, _, _)
tokenize_paragraphs_with_config(paras, p_idx, max_chunk) ==
    IF p_idx >= Len(paras) THEN <<>>
    ELSE config_paragraph_words(
            tokenize_with_config(split_whitespace(paras[p_idx + 1], <<>>, <<>>),
                                 max_chunk),
            p_idx < Len(paras) - 1)
         \o tokenize_paragraphs_with_config(paras, p_idx + 1, max_chunk)

config_chapter_of(index_, title, ws) ==
    [index |-> index_, title |-> title, words |-> ws, stats |-> from_words(ws)]

create_chapter_with_config(index_, title, paras, max_chunk) ==
    config_chapter_of(index_, title,
                      tokenize_paragraphs_with_config(paras, 0, max_chunk))

(***************************************************************************)
(* Inputs of the model                                                     *)
(***************************************************************************)
MaxSpine == 3

MaxBody == 16

MaxWide == 3

MaxParas == 3

MaxEntries == 3

MaxElems == 3

MaxEvents == 5

\* DEFAULT_MAX_CHUNK_CHARS of the tokenizer, as the design document gives it
DEFAULT_MAX_CHUNK_CHARS == 13

MinChunkLimit == 10

MaxChunkLimit == 22

RECURSIVE Rep(_, _)
\* n copies of character c
Rep(c, n) == IF n = 0 THEN <<>> ELSE <<c>> \o Rep(c, n - 1)

RECURSIVE Flatten(_)
Flatten(ss) == IF ss = <<>> THEN <<>> ELSE Head(ss) \o Flatten(Tail(ss))

SeqsUpTo(S, n) == UNION {[1..k -> S] : k \in 0..n}

Attr(k, v) == [key |-> k, value |-> v]

Entry(name, content) == [name |-> name, content |-> content]

\* raw tokens: an optional prefix, a body of ASCII and wide letters, an
\* optional suffix and an optional trailing character
TokenPrefixes ==
    {<<>>, <<"u","n">>, <<"I","n","t","e","r">>, <<"a","n","t","i">>, <<"a","n","t","I_dot">>, <<"K_sign">>}

TokenSuffixes == {<<>>, <<"i","n","g">>, <<"i","z","a","t","i","o","n">>, <<"L","Y">>}

TokenTails == {<<>>, <<"!">>, <<";">>, <<"-">>, <<"7", "'">>}

Tokens ==
    {pre \o Rep("x", n) \o Rep(w, m) \o suf \o tail :
        pre \in TokenPrefixes, n \in 0..MaxBody, m \in 0..MaxWide,
        w \in {"zhe", "han"}, suf \in TokenSuffixes, tail \in TokenTails}
        \ {<<>>}

\* raw tokens given to the configurable splitter, and the limits of its caller
ConfigTokens ==
    {pre \o Rep("x", n) \o Rep(w, m) \o suf :
        pre \in TokenPrefixes, n \in 0..MaxBody, m \in 0..MaxWide,
        w \in {"zhe", "han"}, suf \in TokenSuffixes}
        \ {<<>>}

ChunkLimits == MinChunkLimit..MaxChunkLimit

\* paragraph texts
ParaTexts ==
    {<<"a","b">>, <<"a","b"," ","c","d",".">>, <<"a","b",","," ","c","d">>, <<"*","*","*">>, <<"c","d",":"," ","i","n","t","e","r","n","a","t","i","o","n","a","l","i","z","a","t","i","o","n">>,
     <<"u","n","b","e","l","i","e","v","a","b","i","l","i","t","y","!"," ","a","b">>}

\* names of archive entries and paths looked up in them
EntryNames ==
    {<<"a">>, <<"b">>, <<"d","/","A">>, <<"D","/","a">>, <<"K_sign">>, <<"K">>, <<"k">>}

\* archives with pairwise distinct entry names; the content of an entry
\* is one text event holding its own name, so that contents tell entries apart
Archives ==
    {[i \in 1..Len(ns) |-> Entry(ns[i], <<TextEv(ns[i])>>)] :
        ns \in {x \in SeqsUpTo(EntryNames, MaxEntries) :
                    \A i, j \in 1..Len(x) : i /= j => x[i] /= x[j]}}

\* chapter documents for extract_title_from_xhtml: an optional head with a
\* title element, then a body of up to MaxElems elements
Elem(tag, text) == <<StartEv(tag, <<>>)>> \o text \o <<EndEv(tag)>>

HeadParts ==
    {<<>>,
     Elem(TagHead, Elem(TagTitle, <<TextEv(<<"T">>)>>)),
     Elem(TagHead, Elem(TagTitle, <<TextEv(<<" ">>)>>)),
     Elem(TagHead, Elem(TagTitle, <<>>))}

BodyElems ==
    {Elem(TagH1, <<TextEv(<<"H">>)>>),
     Elem(<<"H","2">>, <<TextEv(<<" ","G"," ">>)>>),
     Elem(TagH1, <<TextEv(<<" ">>)>>),
     Elem(TagH2, Elem(<<"b">>, <<TextEv(<<"B">>)>>)),
     Elem(TagP, <<TextEv(<<"x">>)>>),
     <<EmptyEv(TagBr, <<>>)>>}

TitleDocs ==
    {Elem(<<"h","t","m","l">>, h \o Elem(TagBody, Flatten(b))) :
        h \in HeadParts, b \in SeqsUpTo(BodyElems, MaxElems)}

\* event sequences for extract_text_from_xhtml: the well-nested sequences of
\* at most n start, end, empty and text events, open holding the names of the
\* elements not yet closed
TextTags == {TagBody, TagHead, TagScript}

RECURSIVE NestedEvents(_, _)
NestedEvents(n, open) ==
    {<<>>} \cup
    (IF n = 0 THEN {}
     ELSE UNION (
        {{<<StartEv(t, <<>>)>> \o r : r \in NestedEvents(n - 1, <<t>> \o open)} :
            t \in TextTags}
        \cup {{<<TextEv(<<"t">>)>> \o r : r \in NestedEvents(n - 1, open)},
              {<<EmptyEv(TagBr, <<>>)>> \o r : r \in NestedEvents(n - 1, open)}}
        \cup (IF open = <<>> THEN {}
              ELSE {{<<EndEv(Head(open))>> \o r :
                        r \in NestedEvents(n - 1, Tail(open))}})))

TextDocs == NestedEvents(MaxEvents, <<>>)

\* the EPUB packages given to parse_epub_with_config
IdA == <<"a">>
IdB == <<"b">>
IdImg == <<"g">>
IdZ == <<"z">>
HrefA == <<"C","1">>
HrefB == <<"c","2">>
HrefImg == <<"c","3">>

OpfPaths == {<<"o","/","b",".","o","p","f">>, <<"b",".","o","p","f">>}

ContainerNames == {ContainerPath, <<"M","E","T","A","-","I","N","F","/","C","O","N","T","A","I","N","E","R",".","X","M","L">>}

ContainerDoc(attrs) ==
    Elem(<<"c","o","n","t","a","i","n","e","r">>, Elem(<<"r","o","o","t","f","i","l","e","s">>, <<EmptyEv(TagRootfile, attrs)>>))

BadContainerDocs ==
    {Elem(<<"c","o","n","t","a","i","n","e","r">>, <<>>),
     ContainerDoc(<<Attr("media-type", <<"x","m","l">>)>>),
     <<StartEv(<<"c","o","n","t","a","i","n","e","r">>, <<>>), ErrEv>>}

OpfDoc(spine_ids) ==
    Elem(<<"p","a","c","k","a","g","e">>,
        Elem(NameMetadata,
            Elem(<<"d","c",":","t","i","t","l","e">>, <<TextEv(<<"B","o","o","k">>)>>)
            \o Elem(<<"d","c",":","c","r","e","a","t","o","r">>, <<TextEv(<<"M","e">>)>>))
        \o Elem(<<"m","a","n","i","f","e","s","t">>,
            <<EmptyEv(NameItem, <<Attr("id", IdA), Attr("href", HrefA),
                                  Attr("media-type", <<"a","/","x","h","t","m","l","+","x","m","l">>)>>),
              EmptyEv(NameItem, <<Attr("id", IdB), Attr("href", HrefB),
                                  Attr("media-type", <<"t","e","x","t","/","h","t","m","l">>)>>),
              EmptyEv(NameItem, <<Attr("id", IdImg), Attr("href", HrefImg),
                                  Attr("media-type", <<"i","m","a","g","e","/","p","n","g">>)>>)>>)
        \o Elem(<<"s","p","i","n","e">>,
            [i \in 1..Len(spine_ids) |->
                EmptyEv(NameItemref, <<Attr("idref", spine_ids[i])>>)]))

BadOpfDoc == <<StartEv(<<"p","a","c","k","a","g","e">>, <<>>), ErrEv>>

\* package documents for read_opf: title and creator elements before, inside
\* and after the metadata block.  A text event holds the text as unescaped;
\* it is empty when unescaping failed (an entity that XML does not define)
DcTitle == <<"d","c",":","t","i","t","l","e">>

DcCreator == <<"d","c",":","c","r","e","a","t","o","r">>

MetaParts ==
    {Elem(DcTitle, <<TextEv(<<"A">>)>>),
     Elem(NameTitle, <<TextEv(<<"B">>)>>),
     Elem(DcTitle, <<TextEv(<<>>)>>),
     Elem(DcTitle, <<>>),
     Elem(DcCreator, <<TextEv(<<"C">>)>>),
     Elem(DcCreator, <<TextEv(<<"D">>)>>),
     Elem(DcCreator, <<TextEv(<<>>)>>),
     Elem(<<"d","c",":","d","a","t","e">>, <<TextEv(<<"N">>)>>)}

OutsideParts ==
    {<<>>, Elem(DcTitle, <<TextEv(<<"X">>)>>) \o Elem(DcCreator, <<TextEv(<<"Y">>)>>)}

MetadataDocs ==
    {Elem(<<"p","a","c","k","a","g","e">>,
          before \o Elem(NameMetadata, Flatten(parts)) \o after) :
        before \in OutsideParts, parts \in SeqsUpTo(MetaParts, MaxElems),
        after \in OutsideParts}

\* chapter documents: with a heading, without one, with a title element
\* only, without text, with symbols only, with a long word
ChapterDocs ==
    {Elem(<<"h","t","m","l">>, Elem(TagBody,
        Elem(TagH1, <<TextEv(<<"O","n","e">>)>>) \o Elem(TagP, <<TextEv(<<"a","b"," ","c","d",".">>)>>)
        \o Elem(TagP, <<TextEv(<<"e","f">>)>>))),
     Elem(<<"h","t","m","l">>, Elem(TagBody,
        Elem(TagP, <<TextEv(<<"a","b">>)>>) \o Elem(TagP, <<TextEv(<<"g","h",","," ","i","j">>)>>))),
     Elem(<<"h","t","m","l">>, Elem(TagHead, Elem(TagTitle, <<TextEv(<<"T">>)>>))
        \o Elem(TagBody, Elem(TagDiv, <<TextEv(<<"k","l">>)>>))),
     Elem(<<"h","t","m","l">>, Elem(TagBody, Elem(TagP, <<>>))),
     Elem(<<"h","t","m","l">>, Elem(TagBody, Elem(TagP, <<TextEv(<<"*","*","*">>)>>))),
     Elem(<<"h","t","m","l">>, Elem(TagBody,
        Elem(TagP, <<TextEv(<<"i","n","t","e","r","n","a","t","i","o","n","a","l","i","z","a","t","i","o","n","!",
                              " ","h","i","p","p","o","p","o","t","a","m","u","s","e","s">>)>>)))}

\* documents of the second chapter file: without text, or two paragraphs
SecondChapterDocs ==
    {Elem(<<"h","t","m","l">>, Elem(TagBody, Elem(TagP, <<>>))),
     Elem(<<"h","t","m","l">>, Elem(TagBody,
        Elem(TagP, <<TextEv(<<"m","n"," ","o","p">>)>>) \o <<EmptyEv(TagBr, <<>>)>>
        \o <<TextEv(<<"q","r",".">>)>>))}

\* file names of the two chapters as stored in the archive
StoredA == <<"c","1">>
StoredB == <<"c","2">>

JoinDir(dir, name) == IF dir = <<>> THEN name ELSE dir \o <<"/">> \o name

ChapterEntries(dir, da, db) ==
    (IF da = <<>> THEN <<>> ELSE <<Entry(JoinDir(dir, StoredA), da)>>)
    \o (IF db = <<>> THEN <<>> ELSE <<Entry(JoinDir(dir, StoredB), db)>>)

\* packages whose container and package document are readable; da, db are
\* the documents of the two chapter files, <<>> when the file is absent
GoodPackages ==
    {<<Entry(cn, ContainerDoc(<<Attr("full-path", op)>>)),
       Entry(op, OpfDoc(sp))>> \o ChapterEntries(opf_dir_of(op), da, db) :
        cn \in ContainerNames, op \in OpfPaths,
        sp \in SeqsUpTo({IdA, IdB, IdZ}, MaxSpine),
        da \in ChapterDocs \cup {<<>>}, db \in SecondChapterDocs \cup {<<>>}}

\* packages whose container or package document is missing or unreadable
BadPackages ==
    {<<Entry(<<"o","/","b",".","o","p","f">>, OpfDoc(<<IdA>>))>>,
     <<Entry(<<"m","i","m","e","t","y","p","e">>, <<>>)>>,
     <<Entry(ContainerPath, ContainerDoc(<<Attr("full-path", <<"o","/","b",".","o","p","f">>)>>))>>,
     <<Entry(ContainerPath, ContainerDoc(<<Attr("full-path", <<"o","/","b",".","o","p","f">>)>>)),
       Entry(<<"o","/","b",".","o","p","f">>, BadOpfDoc)>>}
    \cup {<<Entry(cn, d), Entry(<<"o","/","b",".","o","p","f">>, OpfDoc(<<IdA>>))>> :
            cn \in ContainerNames, d \in BadContainerDocs}

(***************************************************************************)
(* State                                                                   *)
(***************************************************************************)
VARIABLES
    pc,               \* position of the running call
    zip_valid,        \* whether the bytes given to the parser are a zip archive
    archive,          \* the opened archive
    entry,            \* the entry point called: parse_epub or parse_epub_with_config
    max_chunk_chars,  \* argument of parse_epub_with_config
    opf_path,         \* parse_epub_with_config: path of the package document
    metadata,         \* parse_epub_with_config: BookMetadata
    spine,            \* parse_epub_with_config: idrefs in reading order
    manifest,         \* parse_epub_with_config: id -> href
    index,            \* parse_epub_with_config: spine entries processed
    chapters,         \* parse_epub_with_config: chapters built so far
    result,           \* parse_epub_with_config: what the call returned
    path,             \* read_file: the path looked up
    content,          \* read_file: its result
    raw,              \* split_long_word / tokenize: the raw token
    chunks,           \* split_long_word: its result
    words,            \* tokenize: its result
    paragraphs,       \* tokenize_paragraphs: its argument
    all_words,        \* tokenize_paragraphs: its result
    events,           \* extract_title_from_xhtml: the events of the document
    ev_pos,           \* extract_title_from_xhtml: events read so far
    title_state,      \* extract_title_from_xhtml: flags and returned value
    text_state        \* extract_text_from_xhtml: result, in_body and skip_depth

parseVars ==
    <<zip_valid, entry, max_chunk_chars, opf_path, metadata, spine, manifest, index,
      chapters, result>>

readVars == <<path, content>>

tokenVars == <<raw, chunks, words>>

paraVars == <<paragraphs, all_words>>

titleVars == <<events, ev_pos, title_state, text_state>>

vars == <<pc, archive, parseVars, readVars, tokenVars, paraVars, titleVars>>

NoResult == [kind |-> "none", err |-> "none", book |-> <<>>]

ParseIdle ==
    /\ zip_valid = TRUE
    /\ entry = "parse_epub_with_config"
    /\ max_chunk_chars = MinChunkLimit
    /\ opf_path = <<>>
    /\ metadata = [title |-> <<>>, author |-> None]
    /\ spine = <<>>
    /\ manifest = EmptyMap
    /\ index = 0
    /\ chapters = <<>>
    /\ result = NoResult

ReadIdle == path = <<>> /\ content = Err("none")

TokenIdle == raw = <<>> /\ chunks = Returned(<<>>) /\ words = WordsReturned(<<>>)

ParaIdle == paragraphs = <<>> /\ all_words = WordsReturned(<<>>)

TitleIdle ==
    events = <<>> /\ ev_pos = 0 /\ title_state = title_init /\ text_state = text_init

(***************************************************************************)
(* parse_epub_with_config                                                  *)
(***************************************************************************)
Init ==
    /\ \/ zip_valid = TRUE /\ archive \in GoodPackages \cup BadPackages
       \/ zip_valid = FALSE /\ archive = <<>>
    /\ \/ /\ entry = "parse_epub_with_config"
          /\ pc = "open"
          /\ max_chunk_chars \in {MinChunkLimit, MaxChunkLimit}
       \/ /\ entry = "parse_epub"
          /\ pc = "parse_epub"
          /\ max_chunk_chars = MinChunkLimit
    /\ opf_path = <<>>
    /\ metadata = [title |-> <<>>, author |-> None]
    /\ spine = <<>>
    /\ manifest = EmptyMap
    /\ index = 0
    /\ chapters = <<>>
    /\ result = NoResult
    /\ ReadIdle /\ TokenIdle /\ ParaIdle /\ TitleIdle

Failed(kind) == [kind |-> "Err", err |-> kind, book |-> <<>>]

\* parse_epub with the fixed limit MAX_CHUNK_CHARS of split_long_word
ParseEpub_fixed_limit ==
    /\ pc = "parse_epub"
    /\ max_chunk_chars' = MAX_CHUNK_CHARS
    /\ pc' = "open"
    /\ UNCHANGED <<zip_valid, archive, entry, opf_path, metadata, spine, manifest,
                   index, chapters, result, readVars, tokenVars, paraVars, titleVars>>

\* parse_epub: parse_epub_with_config(data, DEFAULT_MAX_CHUNK_CHARS)
ParseEpub ==
    /\ pc = "parse_epub"
    /\ max_chunk_chars' = DEFAULT_MAX_CHUNK_CHARS
    /\ pc' = "open"
    /\ UNCHANGED <<zip_valid, archive, entry, opf_path, metadata, spine, manifest,
                   index, chapters, result, readVars, tokenVars, paraVars, titleVars>>

\* ZipArchive::new(cursor)?
OpenArchive ==
    /\ pc = "open"
    /\ pc' = IF zip_valid THEN "container" ELSE "done"
    /\ result' = IF zip_valid THEN result ELSE Failed("Zip")
    /\ UNCHANGED <<zip_valid, archive, entry, max_chunk_chars, opf_path, metadata, spine,
                   manifest, index, chapters, readVars, tokenVars, paraVars, titleVars>>

\* let opf_path = read_container(&mut archive)?
ReadContainer ==
    /\ pc = "container"
    /\ LET r == read_container(archive)
       IN  /\ pc' = IF r.ok THEN "opf" ELSE "done"
           /\ opf_path' = IF r.ok THEN r.val ELSE opf_path
           /\ result' = IF r.ok THEN result ELSE Failed(r.err)
    /\ UNCHANGED <<zip_valid, archive, entry, max_chunk_chars, metadata, spine,
                   manifest, index, chapters, readVars, tokenVars, paraVars, titleVars>>

\* let (metadata, spine, manifest) = read_opf(&mut archive, &opf_path)?
ReadOpf ==
    /\ pc = "opf"
    /\ LET r == read_opf(archive, opf_path)
       IN  /\ pc' = IF r.ok THEN "spine" ELSE "done"
           /\ metadata' = IF r.ok THEN r.val.metadata ELSE metadata
           /\ spine' = IF r.ok THEN r.val.spine ELSE spine
           /\ manifest' = IF r.ok THEN r.val.manifest ELSE manifest
           /\ result' = IF r.ok THEN result ELSE Failed(r.err)
    /\ UNCHANGED <<zip_valid, archive, entry, max_chunk_chars, opf_path, index, chapters,
                   readVars, tokenVars, paraVars, titleVars>>

\* chapter_for with the fallback title numbered from the 0-based index
chapter_for_zero_based(idx, found, paras, limit) ==
    IF paras = <<>> THEN <<>>
    ELSE <<create_chapter_with_config(idx,
                IF found.some THEN found.val ELSE chapter_title(idx),
                paras, limit)>>

\* chapter_for pushing a chapter only when its paragraphs yield a word
chapter_for_with_words(idx, found, paras, limit) ==
    IF tokenize_paragraphs_with_config(paras, 0, limit) = <<>> THEN <<>>
    ELSE <<create_chapter_with_config(idx,
                IF found.some THEN found.val ELSE chapter_title(idx + 1),
                paras, limit)>>

\* the chapter pushed for a chapter document with these paragraphs
chapter_for(idx, found, paras, limit) ==
    IF paras = <<>> THEN <<>>
    ELSE <<create_chapter_with_config(idx,
                IF found.some THEN found.val ELSE chapter_title(idx + 1),
                paras, limit)>>

\* the chapter pushed for the file read from the archive
chapter_from_file(idx, file, limit) ==
    IF ~file.ok THEN <<>>
    ELSE chapter_for(idx, extract_title_from_xhtml(file.val),
                     paragraphs_of(extract_text_from_xhtml(file.val)), limit)

\* the chapters pushed by one iteration of the loop over the spine
spine_entry(arch, dir, mf, idx, item_id, limit) ==
    IF item_id \notin DOMAIN mf THEN <<>>
    ELSE chapter_from_file(idx,
            read_file(arch, IF dir = <<>> THEN mf[item_id]
                            ELSE dir \o <<"/">> \o mf[item_id]),
            limit)

\* one iteration of `for (index, item_id) in spine.iter().enumerate()`
SpineEntry ==
    /\ pc = "spine"
    /\ index < Len(spine)
    /\ chapters' = chapters \o spine_entry(archive, opf_dir_of(opf_path), manifest,
                                           index, spine[index + 1], max_chunk_chars)
    /\ index' = index + 1
    /\ UNCHANGED <<pc, zip_valid, archive, entry, max_chunk_chars, opf_path, metadata, spine,
                   manifest, result, readVars, tokenVars, paraVars, titleVars>>

\* BookStats::from_chapters and Ok(Book { .. })
Finish ==
    /\ pc = "spine"
    /\ index = Len(spine)
    /\ pc' = "done"
    /\ result' = [kind |-> "Ok", err |-> "none",
                  book |-> [metadata |-> metadata,
                            chapters |-> chapters,
                            stats |-> from_chapters(chapters)]]
    /\ UNCHANGED <<zip_valid, archive, entry, max_chunk_chars, opf_path, metadata, spine,
                   manifest, index, chapters, readVars, tokenVars, paraVars, titleVars>>

RECURSIVE spine_chapters(_, _, _, _, _, _)
\* the whole loop over the spine: the chapters pushed from entry idx on
spine_chapters(arch, dir, mf, sp, idx, limit) ==
    IF idx >= Len(sp) THEN <<>>
    ELSE spine_entry(arch, dir, mf, idx, sp[idx + 1], limit)
         \o spine_chapters(arch, dir, mf, sp, idx + 1, limit)

\* Ok(Book { metadata, chapters, stats })
book_of(md, chs) ==
    [kind |-> "Ok", err |-> "none",
     book |-> [metadata |-> md, chapters |-> chs, stats |-> from_chapters(chs)]]

\* parse_epub_with_config after read_opf returned r for the package at opf
parse_package(arch, opf, r, limit) ==
    IF ~r.ok THEN Failed(r.err)
    ELSE book_of(r.val.metadata,
                 spine_chapters(arch, opf_dir_of(opf), r.val.manifest, r.val.spine,
                                0, limit))

\* parse_epub_with_config after read_container returned c
parse_container(arch, c, limit) ==
    IF ~c.ok THEN Failed(c.err)
    ELSE parse_package(arch, c.val, read_opf(arch, c.val), limit)

\* parse_epub_with_config as a function of its arguments; valid tells whether
\* the bytes are a zip archive, data is the archive they hold
parse_epub_with_config(valid, data, limit) ==
    IF ~valid THEN Failed("Zip")
    ELSE parse_container(data, read_container(data), limit)

\* parse_epub as a function of its argument
parse_epub(valid, data) == parse_epub_with_config(valid, data, DEFAULT_MAX_CHUNK_CHARS)

Next == ParseEpub \/ OpenArchive \/ ReadContainer \/ ReadOpf \/ SpineEntry \/ Finish

Spec == Init /\ [][Next]_vars

(***************************************************************************)
(* read_opf on one package document                                        *)
(***************************************************************************)
InitOpf ==
    /\ pc = "opf"
    /\ opf_path = <<"b",".","o","p","f">>
    /\ archive \in {<<Entry(opf_path, d)>> : d \in MetadataDocs}
    /\ zip_valid = TRUE
    /\ entry = "parse_epub_with_config"
    /\ max_chunk_chars = MinChunkLimit
    /\ metadata = [title |-> <<>>, author |-> None]
    /\ spine = <<>>
    /\ manifest = EmptyMap
    /\ index = 0
    /\ chapters = <<>>
    /\ result = NoResult
    /\ ReadIdle /\ TokenIdle /\ ParaIdle /\ TitleIdle

NextOpf == ReadOpf

SpecOpf == InitOpf /\ [][NextOpf]_vars

(***************************************************************************)
(* read_file                                                               *)
(***************************************************************************)
InitReadFile ==
    /\ pc = "read_file"
    /\ archive \in Archives
    /\ path \in EntryNames
    /\ content = Err("none")
    /\ ParseIdle /\ TokenIdle /\ ParaIdle /\ TitleIdle

ReadFile ==
    /\ pc = "read_file"
    /\ content' = read_file(archive, path)
    /\ pc' = "read_file_done"
    /\ UNCHANGED <<archive, path, parseVars, tokenVars, paraVars, titleVars>>

NextReadFile == ReadFile

SpecReadFile == InitReadFile /\ [][NextReadFile]_vars

(***************************************************************************)
(* split_long_word and tokenize on one raw token                           *)
(***************************************************************************)
InitToken ==
    /\ pc = "split"
    /\ raw \in Tokens
    /\ chunks = Returned(<<>>)
    /\ words = WordsReturned(<<>>)
    /\ archive = <<>>
    /\ ParseIdle /\ ReadIdle /\ ParaIdle /\ TitleIdle

SplitLongWord ==
    /\ pc = "split"
    /\ chunks' = split_long_word(raw)
    /\ pc' = "tokenize"
    /\ UNCHANGED <<raw, words, archive, parseVars, readVars, paraVars, titleVars>>

Tokenize ==
    /\ pc = "tokenize"
    /\ words' = tokenize(raw)
    /\ pc' = "tokenize_done"
    /\ UNCHANGED <<raw, chunks, archive, parseVars, readVars, paraVars, titleVars>>

NextToken == SplitLongWord \/ Tokenize

SpecToken == InitToken /\ [][NextToken]_vars

(***************************************************************************)
(* split_long_word_with_config on one raw token, for every limit           *)
(***************************************************************************)
InitConfig ==
    /\ pc = "split_config"
    /\ raw \in ConfigTokens
    /\ max_chunk_chars \in ChunkLimits
    /\ chunks = Returned(<<>>)
    /\ words = WordsReturned(<<>>)
    /\ archive = <<>>
    /\ zip_valid = TRUE
    /\ entry = "parse_epub_with_config"
    /\ opf_path = <<>>
    /\ metadata = [title |-> <<>>, author |-> None]
    /\ spine = <<>>
    /\ manifest = EmptyMap
    /\ index = 0
    /\ chapters = <<>>
    /\ result = NoResult
    /\ ReadIdle /\ ParaIdle /\ TitleIdle

SplitLongWordWithConfig ==
    /\ pc = "split_config"
    /\ chunks' = Returned(split_long_word_with_config(raw, max_chunk_chars))
    /\ pc' = "split_config_done"
    /\ UNCHANGED <<raw, words, archive, parseVars, readVars, paraVars, titleVars>>

NextConfig == SplitLongWordWithConfig

SpecConfig == InitConfig /\ [][NextConfig]_vars

(***************************************************************************)
(* BookStats::from_chapters on chapters built by create_chapter            *)
(***************************************************************************)
\* the chapters given to from_chapters: one per paragraph text
StatChapters == {create_chapter(0, <<"T">>, <<p>>).chapter : p \in ParaTexts}

InitStats ==
    /\ pc = "from_chapters"
    /\ chapters \in SeqsUpTo(StatChapters, MaxSpine)
    /\ result = NoResult
    /\ archive = <<>>
    /\ zip_valid = TRUE
    /\ entry = "parse_epub_with_config"
    /\ max_chunk_chars = MinChunkLimit
    /\ opf_path = <<>>
    /\ metadata = [title |-> <<>>, author |-> None]
    /\ spine = <<>>
    /\ manifest = EmptyMap
    /\ index = 0
    /\ ReadIdle /\ TokenIdle /\ ParaIdle /\ TitleIdle

FromChapters ==
    /\ pc = "from_chapters"
    /\ result' = book_of(metadata, chapters)
    /\ pc' = "from_chapters_done"
    /\ UNCHANGED <<archive, zip_valid, entry, max_chunk_chars, opf_path, metadata,
                   spine, manifest, index, chapters, readVars, tokenVars, paraVars,
                   titleVars>>

NextStats == FromChapters

SpecStats == InitStats /\ [][NextStats]_vars

(***************************************************************************)
(* tokenize_paragraphs                                                     *)
(***************************************************************************)
InitParagraphs ==
    /\ pc = "paragraphs"
    /\ paragraphs \in SeqsUpTo(ParaTexts, MaxParas)
    /\ all_words = WordsReturned(<<>>)
    /\ archive = <<>>
    /\ ParseIdle /\ ReadIdle /\ TokenIdle /\ TitleIdle

TokenizeParagraphs ==
    /\ pc = "paragraphs"
    /\ all_words' = tokenize_paragraphs(paragraphs)
    /\ pc' = "paragraphs_done"
    /\ UNCHANGED <<paragraphs, archive, parseVars, readVars, tokenVars, titleVars>>

NextParagraphs == TokenizeParagraphs

SpecParagraphs == InitParagraphs /\ [][NextParagraphs]_vars

(***************************************************************************)
(* extract_title_from_xhtml, one event per step                            *)
(***************************************************************************)
InitTitle ==
    /\ pc = "title"
    /\ events \in TitleDocs
    /\ ev_pos = 0
    /\ title_state = title_init
    /\ text_state = text_init
    /\ archive = <<>>
    /\ ParseIdle /\ ReadIdle /\ TokenIdle /\ ParaIdle

\* read_event_into yields the next event, of the given kinds
TitleEvent(kinds) ==
    /\ pc = "title"
    /\ ev_pos < Len(events)
    /\ events[ev_pos + 1].kind \in kinds
    /\ title_state' = title_step(title_state, events[ev_pos + 1])
    /\ ev_pos' = ev_pos + 1
    /\ pc' = IF title_state'.returned.some THEN "title_done" ELSE "title"
    /\ UNCHANGED <<events, text_state, archive, parseVars, readVars, tokenVars, paraVars>>

TitleStart == TitleEvent({"Start"})

TitleText == TitleEvent({"Text"})

TitleEnd == TitleEvent({"End"})

TitleOther == TitleEvent({"Empty", "Other", "Err"})

\* Ok(Event::Eof) => break, then None is returned
TitleEof ==
    /\ pc = "title"
    /\ ev_pos = Len(events)
    /\ pc' = "title_done"
    /\ UNCHANGED <<archive, parseVars, readVars, tokenVars, paraVars, titleVars>>

NextTitle == TitleStart \/ TitleText \/ TitleEnd \/ TitleOther \/ TitleEof

SpecTitle == InitTitle /\ [][NextTitle]_vars

(***************************************************************************)
(* extract_text_from_xhtml, one event per step                             *)
(***************************************************************************)
InitText ==
    /\ pc = "text"
    /\ events \in TextDocs
    /\ ev_pos = 0
    /\ text_state = text_init
    /\ title_state = title_init
    /\ archive = <<>>
    /\ ParseIdle /\ ReadIdle /\ TokenIdle /\ ParaIdle

\* read_event_into yields the next event, of the given kinds
TextEvent(kinds) ==
    /\ pc = "text"
    /\ ev_pos < Len(events)
    /\ events[ev_pos + 1].kind \in kinds
    /\ text_state' = text_step(text_state, events[ev_pos + 1])
    /\ ev_pos' = ev_pos + 1
    /\ UNCHANGED <<pc, events, title_state, archive, parseVars, readVars, tokenVars,
                   paraVars>>

TextStart == TextEvent({"Start"})

TextEnd == TextEvent({"End"})

TextText == TextEvent({"Text"})

TextEmpty == TextEvent({"Empty"})

\* Ok(Event::Eof) => break, then result is returned
TextEof ==
    /\ pc = "text"
    /\ ev_pos = Len(events)
    /\ pc' = "text_done"
    /\ UNCHANGED <<archive, parseVars, readVars, tokenVars, paraVars, titleVars>>

NextText == TextStart \/ TextEnd \/ TextText \/ TextEmpty \/ TextEof

SpecText == InitText /\ [][NextText]_vars

(***************************************************************************)
(* Properties                                                              *)
(***************************************************************************)
RECURSIVE SumWordCounts(_)
SumWordCounts(chs) ==
    IF chs = <<>> THEN 0 ELSE Head(chs).stats.word_count + SumWordCounts(Tail(chs))

SlotSum(h) == h[0] + h[1] + h[2] + h[3]

HistogramsMatch(st) ==
    SlotSum(st.length_counts) = st.word_count /\ SlotSum(st.punct_counts) = st.word_count

Returned_Book == pc = "done" /\ result.kind = "Ok"

\* C1: in every Book returned by parse_epub_with_config, stats.total_words is
\* the sum of the chapters' word_count, and for every chapter and for the book
\* aggregate the four length_counts slots and the four punct_counts slots each
\* sum to word_count.
C1_StatsConsistent ==
    Returned_Book =>
        /\ result.book.stats.total_words = SumWordCounts(result.book.chapters)
        /\ result.book.stats.aggregated.word_count = result.book.stats.total_words
        /\ HistogramsMatch(result.book.stats.aggregated)
        /\ \A k \in 1..Len(result.book.chapters) :
            /\ HistogramsMatch(result.book.chapters[k].stats)
            /\ result.book.chapters[k].stats.word_count
                    = Len(result.book.chapters[k].words)

\* a returned Book of two chapters with words of several classes
C1_Witness ==
    /\ Returned_Book
    /\ Len(result.book.chapters) = 2
    /\ result.book.stats.total_words >= 5
    /\ result.book.stats.aggregated.punct_counts[Paragraph] >= 1
    /\ result.book.stats.aggregated.punct_counts[Period] >= 1

\* the archive path of the i-th spine entry (1-based), its idref being in the manifest
SpineFile(i) == JoinDir(opf_dir_of(opf_path), manifest[spine[i]])

InArchive(p) ==
    \E j \in 1..Len(archive) : to_lowercase(archive[j].name) = to_lowercase(p)

\* the i-th spine entry can be resolved: its idref is in the manifest, its
\* file is in the archive and the file has a non-empty paragraph
Resolved(i) ==
    /\ spine[i] \in DOMAIN manifest
    /\ InArchive(SpineFile(i))
    /\ paragraphs_of(extract_text_from_xhtml(read_file(archive, SpineFile(i)).val)) /= <<>>

ResolvedPositions == {i \in 1..Len(spine) : Resolved(i)}

PackageReadable ==
    /\ zip_valid
    /\ read_container(archive).ok
    /\ read_opf(archive, read_container(archive).val).ok

ExpectedTitle(ch) ==
    IF extract_title_from_xhtml(read_file(archive, SpineFile(ch.index + 1)).val).some
    THEN extract_title_from_xhtml(read_file(archive, SpineFile(ch.index + 1)).val).val
    ELSE <<"C","h","a","p","t","e","r"," ">> \o to_string(ch.index + 1)

\* C2: when container.xml and the package document are readable, the parse
\* returns Ok whatever spine entries cannot be resolved; the chapters are
\* exactly the resolvable spine entries, in spine order, each with index = its
\* 0-based spine position, and a chapter without an extracted title is titled
\* "Chapter N" with N = spine position + 1.
C2_UnresolvedEntriesSkipped ==
    (pc = "done" /\ PackageReadable) =>
        /\ result.kind = "Ok"
        /\ Len(result.book.chapters) = Cardinality(ResolvedPositions)
        /\ \A k \in 1..Len(result.book.chapters) :
            /\ result.book.chapters[k].index + 1 \in ResolvedPositions
            /\ k > 1 => result.book.chapters[k - 1].index < result.book.chapters[k].index
            /\ result.book.chapters[k].title = ExpectedTitle(result.book.chapters[k])

\* a spine of three entries whose first entry is not resolved: the second
\* chapter of the Book is the third spine entry and has the fallback title
C2_Witness ==
    /\ Returned_Book
    /\ Len(spine) = 3
    /\ ~Resolved(1)
    /\ Len(result.book.chapters) = 2
    /\ result.book.chapters[2].index = 2
    /\ result.book.chapters[2].title = <<"C","h","a","p","t","e","r"," ","3">>

HasContainerEntry == InArchive(ContainerPath)

HasRootfilePath ==
    \E i \in 1..Len(read_file(archive, ContainerPath).val) :
        /\ read_file(archive, ContainerPath).val[i].kind \in {"Start", "Empty"}
        /\ read_file(archive, ContainerPath).val[i].name = TagRootfile
        /\ \E a \in 1..Len(read_file(archive, ContainerPath).val[i].attrs) :
                read_file(archive, ContainerPath).val[i].attrs[a].key = "full-path"

ContainerWellFormed ==
    \A i \in 1..Len(read_file(archive, ContainerPath).val) :
        read_file(archive, ContainerPath).val[i].kind /= "Err"

\* C3: with no entry for META-INF/container.xml (exact or case-insensitive)
\* the parse fails with MissingContainer; with a container.xml that has no
\* rootfile element with a full-path attribute it fails with MissingOpf; no
\* Book is returned in either case.
C3_MissingContainerOrOpf ==
    (pc = "done" /\ zip_valid) =>
        /\ ~HasContainerEntry => result = Failed("MissingContainer")
        /\ (HasContainerEntry /\ ContainerWellFormed /\ ~HasRootfilePath)
                => result = Failed("MissingOpf")

AlphabeticCount(token) == Len(SelectSeq(token, is_alphabetic))

SplitDone == pc \in {"tokenize", "tokenize_done"}

\* C4: split_long_word returns a chunk list for every raw token: every offset
\* at which it cuts the clean form lies inside the string and on a character
\* boundary, so tokenizing never aborts the call.
C4_SplitNeverAborts == SplitDone => ~chunks.panic

\* C5: a token with fewer than 13 alphabetic characters is never split:
\* split_long_word returns exactly one chunk equal to the token, and tokenize
\* emits exactly one Word for it.
C5_ShortTokenNotSplit ==
    AlphabeticCount(raw) < MIN_SPLIT_LENGTH =>
        /\ SplitDone => chunks = Returned(<<raw>>)
        /\ pc = "tokenize_done" => (~words.panic /\ Len(words.words) = 1)

\* C6: a token with 14 or more alphabetic characters that split_long_word
\* returns for is split into at least 2 chunks, also when no prefix and no
\* suffix can be stripped from it.
C6_LongTokenSplit ==
    (SplitDone /\ AlphabeticCount(raw) >= 14 /\ ~chunks.panic)
        => Len(chunks.chunks) >= 2

PunctClassOf(c) ==
    CASE c \in {".", "!", "?"} -> Period
      [] c \in {",", ";", ":"} -> Comma
      [] OTHER -> PunctNone

\* C7: for every token that tokenize splits into k >= 2 chunks, the first
\* k-1 Words have following_punct = None and the k-th Word has the
\* punctuation class of the token's last character.
C7_PunctOnLastChunk ==
    (pc = "tokenize_done" /\ ~words.panic /\ Len(words.words) >= 2) =>
        /\ \A i \in 1..(Len(words.words) - 1) :
                words.words[i].following_punct = PunctNone
        /\ words.words[Len(words.words)].following_punct = PunctClassOf(raw[Len(raw)])

\* a token split into three chunks, the last of which carries Period
C7_Witness ==
    /\ pc = "tokenize_done"
    /\ ~words.panic
    /\ Len(words.words) = 3
    /\ raw[Len(raw)] = "!"
    /\ words.words[3].following_punct = Period
    /\ words.words[1].following_punct = PunctNone

\* the Words tokenize gives for the p-th paragraph (1-based)
ParaWords(p) == tokenize(paragraphs[p]).words

RECURSIVE WordsBefore(_)
\* number of Words of the paragraphs before the p-th
WordsBefore(p) == IF p = 1 THEN 0 ELSE WordsBefore(p - 1) + Len(ParaWords(p - 1))

\* the following_punct the claim gives the i-th Word of the p-th paragraph
ExpectedPunct(p, i) ==
    IF /\ i = Len(ParaWords(p))
       /\ p /= Len(paragraphs)
       /\ ParaWords(p)[i].following_punct = PunctNone
    THEN Paragraph
    ELSE ParaWords(p)[i].following_punct

\* C8: in the result of tokenize_paragraphs, the last word of each paragraph
\* other than the final one has Paragraph if tokenize gave it None and keeps
\* its Comma or Period otherwise; the last word of the final paragraph and
\* every word that is not the last of its paragraph keep what tokenize gave.
C8_ParagraphMarking ==
    pc = "paragraphs_done" =>
        /\ ~all_words.panic
        /\ Len(all_words.words) = WordsBefore(Len(paragraphs) + 1)
        /\ \A p \in 1..Len(paragraphs) : \A i \in 1..Len(ParaWords(p)) :
            /\ all_words.words[WordsBefore(p) + i].text = ParaWords(p)[i].text
            /\ all_words.words[WordsBefore(p) + i].following_punct = ExpectedPunct(p, i)

\* three paragraphs: the first ends with a word tokenize left unmarked, the
\* second with a Period, the final one with an unmarked word
C8_Witness ==
    /\ pc = "paragraphs_done"
    /\ Len(paragraphs) = 3
    /\ Len(ParaWords(1)) = 2 /\ Len(ParaWords(2)) = 2 /\ Len(ParaWords(3)) = 1
    /\ ParaWords(1)[2].following_punct = PunctNone
    /\ all_words.words[1].following_punct = Comma
    /\ all_words.words[2].following_punct = Paragraph
    /\ all_words.words[4].following_punct = Period
    /\ all_words.words[5].following_punct = PunctNone

\* the element depth, just before event i, of the elements named in tags
OpenCount(i, tags) ==
    Cardinality({j \in 1..(i - 1) :
        events[j].kind = "Start" /\ to_lowercase(events[j].name) \in tags})
    - Cardinality({j \in 1..(i - 1) :
        events[j].kind = "End" /\ to_lowercase(events[j].name) \in tags})

\* positions of the non-empty texts inside the elements named in tags
TextsInside(tags) ==
    {i \in 1..Len(events) :
        /\ events[i].kind = "Text"
        /\ trim(events[i].text) /= <<>>
        /\ OpenCount(i, tags) > 0}

FirstOf(S) == CHOOSE i \in S : \A j \in S : i <= j

\* the title the claim expects for the document
ClaimedTitle ==
    IF TextsInside({TagH1, TagH2}) /= {}
    THEN Some(trim(events[FirstOf(TextsInside({TagH1, TagH2}))].text))
    ELSE IF TextsInside({TagTitle}) /= {}
    THEN Some(trim(events[FirstOf(TextsInside({TagTitle}))].text))
    ELSE None

\* C9: extract_title_from_xhtml returns the first non-empty text inside an h1
\* or h2 element when there is one; otherwise the non-empty text of a title
\* element when there is one; None only when neither is found.
C9_TitleFallback == pc = "title_done" => title_state.returned = ClaimedTitle

ExactEntries == {i \in 1..Len(archive) : archive[i].name = path}

LowerEntries ==
    {i \in 1..Len(archive) : to_lowercase(archive[i].name) = to_lowercase(path)}

\* C10: read_file returns the content of the entry named exactly as the path
\* when there is one; otherwise the content of the first entry, in archive
\* order, whose lowercased name equals the lowercased path; it fails, with
\* InvalidStructure, only when no entry matches case-insensitively.
C10_ReadFileOrder ==
    pc = "read_file_done" =>
        /\ ExactEntries /= {} =>
                \E i \in ExactEntries : content = Ok(archive[i].content)
        /\ (ExactEntries = {} /\ LowerEntries /= {}) =>
                content = Ok(archive[FirstOf(LowerEntries)].content)
        /\ LowerEntries = {} <=> ~content.ok
        /\ ~content.ok => content = Err("InvalidStructure")

\* no entry has the exact name and two entries match case-insensitively:
\* the first of them in archive order is returned
C10_Witness ==
    /\ pc = "read_file_done"
    /\ ExactEntries = {}
    /\ Cardinality(LowerEntries) = 2
    /\ FirstOf(LowerEntries) = 2
    /\ content = Ok(archive[2].content)

\* C11: for every limit in 10..22 given by the caller and every token that the
\* configurable splitter splits, each chunk holds at most max_chunk_chars
\* alphabetic characters (the hyphen markers are not counted).
C11_ChunksWithinLimit ==
    (pc = "split_config_done" /\ Len(chunks.chunks) >= 2) =>
        \A i \in 1..Len(chunks.chunks) :
            AlphabeticCount(chunks.chunks[i]) <= max_chunk_chars

\* a token whose middle is longer than the caller's limit, cut into a piece of
\* exactly the limit and a rest
C11_Witness ==
    /\ pc = "split_config_done"
    /\ max_chunk_chars = 13
    /\ Len(chunks.chunks) >= 3
    /\ \E i \in 1..Len(chunks.chunks) :
            /\ AlphabeticCount(chunks.chunks[i]) = max_chunk_chars
            /\ i < Len(chunks.chunks)
            /\ AlphabeticCount(chunks.chunks[i + 1]) < max_chunk_chars

CountedChars(text) ==
    Cardinality({i \in 1..Len(text) :
        text[i] \in Range(LowerAscii) \cup Range(UpperAscii) \cup WideLetters
                        \cup Digits \cup {"'", "-"}})

PermutationsOf(n) == {q \in [1..n -> 1..n] : \A i, j \in 1..n : q[i] = q[j] => i = j}

\* C14: ChapterStats::merge is commutative and associative on word_count and
\* on both histograms, and BookStats::from_chapters gives the same total_words
\* and aggregated histograms for every permutation of the chapters.
C14_MergeOrderFree ==
    pc = "from_chapters_done" =>
        /\ \A i, j \in 1..Len(chapters) :
                merge(chapters[i].stats, chapters[j].stats)
                    = merge(chapters[j].stats, chapters[i].stats)
        /\ \A i, j, k \in 1..Len(chapters) :
                merge(merge(chapters[i].stats, chapters[j].stats), chapters[k].stats)
                    = merge(chapters[i].stats,
                            merge(chapters[j].stats, chapters[k].stats))
        /\ \A q \in PermutationsOf(Len(chapters)) :
                from_chapters([i \in 1..Len(chapters) |-> chapters[q[i]]])
                    = result.book.stats

\* three chapters with pairwise different statistics
C14_Witness ==
    /\ pc = "from_chapters_done"
    /\ Len(chapters) = 3
    /\ chapters[1].stats /= chapters[2].stats
    /\ chapters[2].stats /= chapters[3].stats
    /\ chapters[1].stats /= chapters[3].stats
    /\ result.book.stats.total_words >= 5

\* whether event i of the package document lies inside the metadata block
InMetadataBlock(doc, i) ==
    Cardinality({j \in 1..(i - 1) :
        doc[j].kind = "Start" /\ doc[j].name = NameMetadata})
    > Cardinality({j \in 1..(i - 1) :
        doc[j].kind = "End" /\ doc[j].name = NameMetadata})

\* positions of the non-empty texts of the elements with these names inside
\* the metadata block
MetadataTexts(doc, names) ==
    {i \in 2..Len(doc) :
        /\ doc[i].kind = "Text"
        /\ doc[i].text /= <<>>
        /\ doc[i - 1].kind = "Start"
        /\ doc[i - 1].name \in names
        /\ InMetadataBlock(doc, i)}

ClaimedMetadataTitle(doc) ==
    IF MetadataTexts(doc, {DcTitle, NameTitle}) = {} THEN UnknownTitle
    ELSE doc[FirstOf(MetadataTexts(doc, {DcTitle, NameTitle}))].text

ClaimedMetadataAuthor(doc) ==
    IF MetadataTexts(doc, {DcCreator, NameCreator}) = {} THEN None
    ELSE Some(doc[FirstOf(MetadataTexts(doc, {DcCreator, NameCreator}))].text)

\* C15: after read_opf scanned a package document, metadata.title is non-empty:
\* the text of the first title element of the metadata block with non-empty
\* text, or "Unknown Title"; metadata.author is the first non-empty creator
\* text of the metadata block, or absent; elements outside the block and later
\* elements never change them.
C15_FirstNonEmptyWins ==
    pc = "spine" =>
        /\ metadata.title /= <<>>
        /\ metadata.title = ClaimedMetadataTitle(archive[1].content)
        /\ metadata.author = ClaimedMetadataAuthor(archive[1].content)

\* the text events among the first n that lie inside body and inside no open
\* script, style or head element
VisibleTexts(n) ==
    {i \in 1..n :
        /\ events[i].kind = "Text"
        /\ OpenCount(i, {TagBody}) > 0
        /\ OpenCount(i, SkipTags) = 0}

\* the number of text nodes appended to the output so far
AppendedTexts == Len(SelectSeq(text_state.result, LAMBDA c : c = "t"))

\* C16: after every event read by extract_text_from_xhtml, the text nodes
\* appended to the output are exactly those read while the cursor was inside
\* body and inside no open script, style or head element, and the skip
\* counter is not negative.
C16_TextOnlyFromBody ==
    pc \in {"text", "text_done"} =>
        /\ text_state.skip_depth >= 0
        /\ AppendedTexts = Cardinality(VisibleTexts(ev_pos))

WithoutMarkers(c, i, k) ==
    SubSeq(c, IF i > 1 THEN 2 ELSE 1, IF i < k THEN Len(c) - 1 ELSE Len(c))

\* C20: for every token that split_long_word splits, the chunks without their
\* hyphen markers, concatenated in order, are exactly the alphabetic characters
\* of the token in their original order and case.
C20_SplitKeepsLetters ==
    (SplitDone /\ ~chunks.panic /\ Len(chunks.chunks) >= 2) =>
        Flatten([i \in 1..Len(chunks.chunks) |->
                    WithoutMarkers(chunks.chunks[i], i, Len(chunks.chunks))])
            = SelectSeq(raw, LAMBDA c : c \in Range(LowerAscii) \cup Range(UpperAscii)
                                                \cup WideLetters)

\* a split token with upper-case letters in its prefix and suffix, a letter
\* of several bytes and a character that is no letter
C20_Witness ==
    /\ SplitDone
    /\ ~chunks.panic
    /\ Len(chunks.chunks) >= 3
    /\ raw[1] = "I"
    /\ raw[Len(raw)] = "!"
    /\ \E i \in 1..Len(raw) : raw[i] = "zhe"
    /\ chunks.chunks[Len(chunks.chunks)] = <<"-","L","Y">>

\* the final Word of the sequence returned by tokenize_paragraphs
FinalWord == all_words.words[Len(all_words.words)]

\* the last paragraph (1-based) that yields a Word
LastWordyParagraph ==
    CHOOSE p \in 1..Len(paragraphs) :
        /\ ParaWords(p) /= <<>>
        /\ \A q \in (p + 1)..Len(paragraphs) : ParaWords(q) = <<>>

\* C18: in the output of tokenize_paragraphs the final Word of the sequence
\* never has following_punct = Paragraph, also when the trailing paragraphs of
\* the list yield no words.
C18_FinalWordNotParagraph ==
    (pc = "paragraphs_done" /\ ~all_words.panic /\ all_words.words /= <<>>) =>
        FinalWord.following_punct /= Paragraph

\* C18 as amended: the final Word of the sequence has following_punct =
\* Paragraph exactly when its paragraph is not the final paragraph of the list
\* (every later paragraph yields no words) and tokenize gave the word None;
\* when the final paragraph of the list yields a word, the final Word never
\* has Paragraph.
C18_FinalWordMarking ==
    (pc = "paragraphs_done" /\ ~all_words.panic /\ all_words.words /= <<>>) =>
        (FinalWord.following_punct = Paragraph
            <=> /\ LastWordyParagraph < Len(paragraphs)
                /\ ParaWords(LastWordyParagraph)[Len(ParaWords(LastWordyParagraph))]
                        .following_punct = PunctNone)

\* two paragraphs with words, the second ending unmarked, then a paragraph
\* of symbols only: the final Word is marked Paragraph
C18_Witness ==
    /\ pc = "paragraphs_done"
    /\ Len(paragraphs) = 3
    /\ ParaWords(1) /= <<>>
    /\ ParaWords(2) /= <<>>
    /\ ParaWords(3) = <<>>
    /\ FinalWord.following_punct = Paragraph

\* the text extracted from the document of chapter ch
ChapterText(ch) ==
    extract_text_from_xhtml(read_file(archive, SpineFile(ch.index + 1)).val)

WordTextsNonEmpty(ch) == \A w \in 1..Len(ch.words) : ch.words[w].text /= <<>>

\* C19: every Chapter in a Book has stats.word_count >= 1 and every
\* Word.text is non-empty, because a chapter is produced only from a
\* non-empty paragraph list and a token is emitted only with at least one
\* counted character.
C19_ChaptersHaveWords ==
    (pc = "done" /\ result.kind = "Ok") =>
        \A k \in 1..Len(result.book.chapters) :
            /\ result.book.chapters[k].stats.word_count >= 1
            /\ WordTextsNonEmpty(result.book.chapters[k])

\* C19 as amended: every spine entry whose document yields a non-empty
\* paragraph has a Chapter in the Book; every Word.text of a Chapter is
\* non-empty and stats.word_count is the number of its Words, which is 0
\* exactly when the document's text has no alphanumeric character, apostrophe
\* or hyphen.
C19_ChapterWords ==
    (pc = "done" /\ result.kind = "Ok") =>
        /\ \A i \in ResolvedPositions :
                \E k \in 1..Len(result.book.chapters) :
                    result.book.chapters[k].index = i - 1
        /\ \A k \in 1..Len(result.book.chapters) :
            /\ WordTextsNonEmpty(result.book.chapters[k])
            /\ result.book.chapters[k].stats.word_count
                    = Len(result.book.chapters[k].words)
            /\ Len(result.book.chapters[k].words) = 0
                    <=> count_clean(ChapterText(result.book.chapters[k])) = 0

\* a Book whose first chapter comes from a document of symbols only and has
\* no Word, and whose second chapter has Words
C19_Witness ==
    /\ pc = "done"
    /\ result.kind = "Ok"
    /\ Len(result.book.chapters) = 2
    /\ result.book.chapters[1].stats.word_count = 0
    /\ ChapterText(result.book.chapters[1]) /= <<>>
    /\ result.book.chapters[2].stats.word_count >= 2

====
